---- MODULE Spec2Model ----
(***************************************************************************)
(* Model of the EPUB content-range extraction of book2pod-rss:             *)
(* EpubParserV2::extract_text_for_chapters with its helpers                *)
(* extract_positions and filter_page_to_iterate_over                       *)
(* (src/text_to_speach/file_parser/mod.rs).                                *)
(*                                                                         *)
(* Strings are sequences of one-character strings, so that splitting an    *)
(* identifier at '#' and comparing paths is computed, not assumed.         *)
(* A page's markup is the sequence of events the XML reader yields for it. *)
(***************************************************************************)
EXTENDS Naturals, Sequences, FiniteSets

VARIABLES
    toc,              \* EpubDoc.toc as get_table_of_contents returns it
    markup,           \* page handle -> events of its markup, NoContent, or Unread
    pc,               \* position of the call: "idle", "next", "walk", "done"
    from_id, to_id,   \* arguments of extract_text_for_chapters
    from_uri, from_tag, to_tag, to_uri,   \* result of extract_positions
    content_to_read,  \* result of filter_page_to_iterate_over
    idx,              \* position of `for content in content_to_read`
    final_string,     \* output buffer
    skip_text,        \* negated collecting flag
    scanned_pages,    \* HashSet<usize> of visited page handles
    current_page,     \* the reader's current page (EpubDoc::set_current_page)
    content_uri,      \* document path of the entry being scanned
    page_xml,         \* number of events of the current page consumed so far
    element_stack,    \* open-element stack of the current page
    result,           \* value returned by the call
    fetched,          \* history: page handles whose markup was fetched, in order
    consumed,         \* history: <<page, position>> of every event handled
    collected,        \* history: <<page, position>> of every text appended
    resolved,         \* history: number of entries resolved to a page handle
    tts,              \* the text-to-speech builder chain (provider/mod.rs)
    txt,              \* the plain-text parser: its input and its paragraphs
    history           \* history: the calls that returned before this one

vars == <<toc, markup, pc, from_id, to_id, from_uri, from_tag, to_tag, to_uri,
          content_to_read, idx, final_string, skip_text, scanned_pages,
          current_page, content_uri, page_xml, element_stack, result,
          fetched, consumed, collected, resolved, tts, txt, history>>

----------------------------------------------------------------------------
(* Bounds *)

\* longest table of contents
MaxToc == 3

\* number of documents in the spine of the archive
MaxPages == 2

----------------------------------------------------------------------------
(* Option values and strings *)

None == [some |-> FALSE]
Some(v) == [some |-> TRUE, value |-> v]

RECURSIVE IndexOf(_, _, _)
IndexOf(s, ch, i) ==
    IF i > Len(s) THEN 0
    ELSE IF s[i] = ch THEN i
    ELSE IndexOf(s, ch, i + 1)

\* str::splitn(2, '#'): at most two pieces, cut at the first '#'
SplitN2(s) ==
    LET k == IndexOf(s, "#", 1)
    IN  IF k = 0 THEN <<s>>
        ELSE <<SubSeq(s, 1, k - 1), SubSeq(s, k + 1, Len(s))>>

\* PathBuf::from keeps the string it is given
PathBufFrom(s) == [inner |-> s]

\* Path::to_string_lossy of a path made from a Rust String
ToStringLossy(p) == p.inner

RECURSIVE Segments(_, _, _)
Segments(s, i, cur) ==
    IF i > Len(s) THEN (IF cur = <<>> THEN <<>> ELSE <<cur>>)
    ELSE IF s[i] = "/"
         THEN (IF cur = <<>> THEN <<>> ELSE <<cur>>) \o Segments(s, i + 1, <<>>)
         ELSE Segments(s, i + 1, Append(cur, s[i]))

\* Path::components: a leading separator is the root, repeated and trailing
\* separators are dropped
Components(p) ==
    [root |-> (Len(p.inner) > 0 /\ p.inner[1] = "/"),
     parts |-> Segments(p.inner, 1, <<>>)]

\* PartialEq for PathBuf compares components
PathBufEq(p, q) == Components(p) = Components(q)

----------------------------------------------------------------------------
(* The archive *)

Pages == 1..MaxPages

\* document paths in spine order; a path beyond the first MaxPages, or not
\* listed, is not a chapter of the archive
Spine == <<"a", "b", "c">>

\* EpubDoc::resource_uri_to_chapter: the position in the spine of the
\* resource whose path equals the given one, if any
ResourceUriToChapter(p) ==
    LET hits == {i \in Pages : i <= Len(Spine) /\ PathBufEq(p, PathBufFrom(<<Spine[i]>>))}
    IN  IF hits = {} THEN None ELSE Some(CHOOSE i \in hits : TRUE)

----------------------------------------------------------------------------
(* Markup events, as xml::reader::EventReader yields them *)

Attr(n, v) == [name |-> n, value |-> v]

StartElement(n, attrs) ==
    [kind |-> "StartElement", name |-> n, attributes |-> attrs, text |-> <<>>]
EndElement(n) ==
    [kind |-> "EndElement", name |-> n, attributes |-> {}, text |-> <<>>]
Characters(c) ==
    [kind |-> "Characters", name |-> "", attributes |-> {}, text |-> c]
\* StartDocument, EndDocument, Whitespace, Comment, CData, ProcessingInstruction
OtherEvent ==
    [kind |-> "Other", name |-> "", attributes |-> {}, text |-> <<>>]
\* the Err item of the reader; the reader yields nothing after it
ErrorEvent ==
    [kind |-> "Error", name |-> "", attributes |-> {}, text |-> <<>>]

X == <<"x">>
Y == <<"y">>

\* <?xml?><d>p<p id="x">q</p><!-- --><p class="y" id="y">r</p></d>
DocAnchors ==
    <<OtherEvent, StartElement("d", {}), Characters(<<"p">>),
      StartElement("p", {Attr("id", X)}), Characters(<<"q">>), EndElement("p"),
      OtherEvent,
      StartElement("p", {Attr("class", Y), Attr("id", Y)}), Characters(<<"r">>),
      EndElement("p"), EndElement("d"), OtherEvent>>

\* <d id="x"><script>p</script>q</d>
DocScript ==
    <<StartElement("d", {Attr("id", X)}), StartElement("script", {}),
      Characters(<<"p">>), EndElement("script"), Characters(<<"q">>),
      EndElement("d")>>

\* <d><d class="x">p</d><svg id="y"><g>q</g><svg>r</svg>s</svg><img/>t</d>
DocNested ==
    <<StartElement("d", {}), StartElement("d", {Attr("class", X)}),
      Characters(<<"p">>), EndElement("d"),
      StartElement("svg", {Attr("id", Y)}), StartElement("g", {}),
      Characters(<<"q">>), EndElement("g"), StartElement("svg", {}),
      Characters(<<"r">>), EndElement("svg"), Characters(<<"s">>),
      EndElement("svg"), StartElement("img", {}), EndElement("img"),
      Characters(<<"t">>), EndElement("d")>>

\* <d>p<p id="y">q   followed by a syntax error
DocBroken ==
    <<StartElement("d", {}), Characters(<<"p">>),
      StartElement("p", {Attr("id", Y)}), Characters(<<"q">>), ErrorEvent>>

Docs == {DocAnchors, DocScript, DocNested, DocBroken}

\* what EpubDoc::get_current_str gives for a page: its markup, or nothing;
\* the content of a page is fixed the first time the reader is asked for it
PageStr(d) == [avail |-> "some", events |-> d]
NoContent == [avail |-> "none", events |-> <<>>]
Unread == [avail |-> "unread", events |-> <<>>]

----------------------------------------------------------------------------
(* Table of contents *)

Content(i, o) == [id |-> i, order |-> o]

IdA == <<"a">>
IdAx == <<"a", "#", "x">>
IdAy == <<"a", "#", "y">>
IdB == <<"b">>
IdBy == <<"b", "#", "y">>
IdC == <<"c">>
IdASlashY == <<"a", "/", "#", "y">>
IdEmpty == <<>>
IdHashX == <<"#", "x">>

TocIds == {IdA, IdAx, IdB, IdBy, IdC}
FromIds == {IdA, IdAx, IdB, IdC, IdEmpty, IdHashX}
ToIds == {IdA, IdAx, IdAy, IdB, IdBy, IdASlashY, IdHashX}

Injective(f) == \A i, j \in DOMAIN f : f[i] = f[j] => i = j

\* tables of contents with unique ids; the container lists the entries in
\* play order
Tocs ==
    UNION { { [i \in 1..n |-> Content(s[i], i)] :
                s \in { f \in [1..n -> TocIds] : Injective(f) } } : n \in 1..MaxToc }

\* EpubParserV2::get_table_of_contents
GetTableOfContents(t) == t

RECURSIVE InsertByOrder(_, _)
InsertByOrder(sorted, e) ==
    IF sorted = <<>> THEN <<e>>
    ELSE IF e.order < Head(sorted).order THEN <<e>> \o sorted
    ELSE <<Head(sorted)>> \o InsertByOrder(Tail(sorted), e)

SortByOrderKeep(t) == t

RECURSIVE SortByOrder(_)
\* Vec::sort_by(|a, b| a.order.cmp(&b.order)): stable, ascending
SortByOrder(t) ==
    IF t = <<>> THEN <<>>
    ELSE InsertByOrder(SortByOrder(SubSeq(t, 1, Len(t) - 1)), t[Len(t)])

----------------------------------------------------------------------------
(* extract_positions and filter_page_to_iterate_over *)

ExtractPositions(f, t) ==
    LET from_split == SplitN2(f)
        to_split == IF t.some THEN SplitN2(t.value) ELSE <<>>
    IN  IF Len(from_split) = 0 \/ (t.some /\ Len(to_split) = 0)
        THEN [ok |-> FALSE, from_uri |-> PathBufFrom(<<>>), from_tag |-> None,
              to_tag |-> None, to_uri |-> None]
        ELSE [ok |-> TRUE,
              from_uri |-> PathBufFrom(from_split[1]),
              from_tag |-> IF Len(from_split) >= 2 THEN Some(from_split[2]) ELSE None,
              to_tag |-> IF t.some /\ Len(to_split) >= 2
                         THEN Some(to_split[2]) ELSE None,
              to_uri |-> IF t.some THEN Some(PathBufFrom(to_split[1])) ELSE None]

SkipPredFullId(e, f_uri) == e.id # ToStringLossy(f_uri)

\* the skip_while predicate: the entry's document path differs from from_uri
SkipPred(e, f_uri) ==
    LET split == SplitN2(e.id)
    IN  Len(split) > 0 /\ split[1] # ToStringLossy(f_uri)

\* the take_while predicate: no stop given, or the entry's id differs from to_uri
TakePred(e, t_uri) ==
    ~t_uri.some \/ (t_uri.some /\ e.id # ToStringLossy(t_uri.value))

RECURSIVE SkipWhileKeepLast(_, _)
SkipWhileKeepLast(s, f_uri) ==
    IF Len(s) <= 1 THEN s
    ELSE IF SkipPred(Head(s), f_uri) THEN SkipWhileKeepLast(Tail(s), f_uri)
    ELSE s

RECURSIVE SkipWhile(_, _)
SkipWhile(s, f_uri) ==
    IF s = <<>> THEN <<>>
    ELSE IF SkipPred(Head(s), f_uri) THEN SkipWhile(Tail(s), f_uri)
    ELSE s

RECURSIVE TakeWhile(_, _)
TakeWhile(s, t_uri) ==
    IF s = <<>> THEN <<>>
    ELSE IF TakePred(Head(s), t_uri) THEN <<Head(s)>> \o TakeWhile(Tail(s), t_uri)
    ELSE <<>>

FilterPageToIterateOver(table, f_uri, t_uri) ==
    TakeWhile(SkipWhile(table, f_uri), t_uri)

----------------------------------------------------------------------------
(* EpubParserV2::extract_text_for_chapters *)

ExcludedTags ==
    {"img", "media", "script", "video", "audio", "object", "embed", "iframe",
     "source", "track", "svg"}

EpubElement(n, attrs) == [name |-> n, attributes |-> attrs]

Ok(text) == [kind |-> "Ok", text |-> text, error |-> ""]
Err(msg) == [kind |-> "Err", text |-> <<>>, error |-> msg]
Panicked == [kind |-> "Panic", text |-> <<>>, error |-> ""]
NoResult == [kind |-> "None", text |-> <<>>, error |-> ""]

\* no builder chain has been started
NoTts ==
    [provider |-> "", env_key |-> None, builder |-> <<>>, calls |-> <<>>,
     status |-> "unused", client |-> <<>>]

\* no text has been given to the plain-text parser
NoTxt == [input |-> <<>>, parsed |-> FALSE, paragraphs |-> <<>>]

\* the locals of extract_text_for_chapters before the call
ExtractIdle ==
    /\ history = <<>>
    /\ markup = [p \in Pages |-> Unread]
    /\ pc = "idle"
    /\ from_id = <<>>
    /\ to_id = None
    /\ from_uri = PathBufFrom(<<>>)
    /\ from_tag = None
    /\ to_tag = None
    /\ to_uri = None
    /\ content_to_read = <<>>
    /\ idx = 0
    /\ final_string = <<>>
    /\ skip_text = FALSE
    /\ scanned_pages = {}
    /\ current_page = 1
    /\ content_uri = PathBufFrom(<<>>)
    /\ page_xml = 0
    /\ element_stack = <<>>
    /\ result = NoResult
    /\ fetched = <<>>
    /\ consumed = <<>>
    /\ collected = <<>>
    /\ resolved = 0

Init ==
    /\ toc \in Tocs
    /\ ExtractIdle
    /\ tts = NoTts
    /\ txt = NoTxt

InitialSkipTextNever(tag) == FALSE

\* line 100: text is skipped from the start when the start id has a fragment
InitialSkipText(tag) == tag.some

VisitedKept(visited) == visited

\* line 101: each call starts with a new, empty visited set
NewVisited(visited) == {}

\* lines 91-101: split the ids, sort and filter the table of contents,
\* initialise the buffer, the flag and the visited set
Call(f, t) ==
    /\ pc = "idle"
    /\ from_id' = f
    /\ to_id' = t
    /\ LET pos == ExtractPositions(f, t)
           table_of_contents == SortByOrder(GetTableOfContents(toc))
       IN  IF ~pos.ok
           THEN /\ pc' = "done"
                /\ result' = Err("id is not correct")
                /\ UNCHANGED <<from_uri, from_tag, to_tag, to_uri, content_to_read,
                               skip_text>>
           ELSE /\ pc' = "next"
                /\ from_uri' = pos.from_uri
                /\ from_tag' = pos.from_tag
                /\ to_tag' = pos.to_tag
                /\ to_uri' = pos.to_uri
                /\ content_to_read' =
                       FilterPageToIterateOver(table_of_contents, pos.from_uri, pos.to_uri)
                /\ skip_text' = InitialSkipText(pos.from_tag)
                /\ UNCHANGED result
    /\ final_string' = <<>>
    /\ scanned_pages' = NewVisited(scanned_pages)
    /\ idx' = 0
    /\ UNCHANGED <<history, tts, txt, toc, markup, current_page, content_uri, page_xml, element_stack,
                   fetched, consumed, collected, resolved>>

\* the entry the loop takes next, and its document path (lines 103-108)
NextEntry == content_to_read[idx + 1]
NextUri == PathBufFrom(SplitN2(NextEntry.id)[1])

\* line 190: the filtered range is exhausted
Finish ==
    /\ pc = "next"
    /\ idx = Len(content_to_read)
    /\ pc' = "done"
    /\ result' = Ok(final_string)
    /\ UNCHANGED <<history, tts, txt, toc, markup, from_id, to_id, from_uri, from_tag, to_tag, to_uri,
                   content_to_read, idx, final_string, skip_text, scanned_pages,
                   current_page, content_uri, page_xml, element_stack,
                   fetched, consumed, collected, resolved>>

\* lines 103-112: the entry's path has no chapter
NoChapterFound ==
    /\ pc = "next"
    /\ idx < Len(content_to_read)
    /\ ~ResourceUriToChapter(NextUri).some
    /\ idx' = idx + 1
    /\ content_uri' = NextUri
    /\ resolved' = resolved + 1
    /\ pc' = "done"
    /\ result' = Err("no chapter found")
    /\ UNCHANGED <<history, tts, txt, toc, markup, from_id, to_id, from_uri, from_tag, to_tag, to_uri,
                   content_to_read, final_string, skip_text, scanned_pages,
                   current_page, page_xml, element_stack,
                   fetched, consumed, collected>>

AlreadyScannedNever(page) == FALSE

\* HashSet::contains of the visited set (line 114)
AlreadyScanned(page) == page \in scanned_pages

\* lines 114-115: the page was scanned through an earlier entry
SkipScanned ==
    /\ pc = "next"
    /\ idx < Len(content_to_read)
    /\ ResourceUriToChapter(NextUri).some
    /\ AlreadyScanned(ResourceUriToChapter(NextUri).value)
    /\ idx' = idx + 1
    /\ content_uri' = NextUri
    /\ resolved' = resolved + 1
    /\ UNCHANGED <<history, tts, txt, toc, markup, pc, from_id, to_id, from_uri, from_tag, to_tag, to_uri,
                   content_to_read, final_string, skip_text, scanned_pages,
                   current_page, page_xml, element_stack, result,
                   fetched, consumed, collected>>

StackKept(stack) == stack

\* line 127: each page starts with a new, empty stack
NewStack(stack) == <<>>

SkipTextReset(flag, tag) == tag.some

\* lines 100-102: skip_text is declared before the loop over the entries and
\* keeps its value from one page to the next
CarriedSkipText(flag, tag) == flag

\* lines 116-127: mark the page visited, make it the reader's current page and
\* fetch its markup; str is what get_current_str gives
FetchPage(str) ==
    /\ pc = "next"
    /\ idx < Len(content_to_read)
    /\ ResourceUriToChapter(NextUri).some
    /\ LET page == ResourceUriToChapter(NextUri).value
       IN  /\ ~AlreadyScanned(page)
           /\ scanned_pages' = scanned_pages \cup {page}
           /\ current_page' = page
           /\ fetched' = Append(fetched, page)
           /\ IF markup[page] = Unread
              THEN markup' = [markup EXCEPT ![page] = str]
              ELSE /\ str = markup[page]
                   /\ UNCHANGED markup
    /\ idx' = idx + 1
    /\ content_uri' = NextUri
    /\ resolved' = resolved + 1
    /\ page_xml' = 0
    /\ element_stack' = NewStack(element_stack)
    /\ skip_text' = CarriedSkipText(skip_text, from_tag)
    /\ IF str.avail = "none"
       THEN /\ pc' = "done"
            /\ result' = Err("chapter has no content!")
       ELSE /\ pc' = "walk"
            /\ UNCHANGED result
    /\ UNCHANGED <<history, tts, txt, toc, from_id, to_id, from_uri, from_tag, to_tag, to_uri,
                   content_to_read, final_string, consumed, collected>>

\* lines 120-124 when the page has markup
OpenPage == \E d \in Docs : FetchPage(PageStr(d))

\* lines 121-124 when the page has none
NoContentFound == FetchPage(NoContent)

\* the event the reader yields next for the current page
Walking == pc = "walk" /\ page_xml < Len(markup[current_page].events)
Event == markup[current_page].events[page_xml + 1]

InExcludedOldest(stack) == Len(stack) > 0 /\ stack[1].name \in ExcludedTags

\* lines 132-147: some element of the stack has an excluded tag name
InExcluded(stack) == \E i \in 1..Len(stack) : stack[i].name \in ExcludedTags

AppendTextBare(buffer, c) == buffer \o c

\* line 149: final_string.push_str(format!("{c}\n"))
AppendText(buffer, c) == buffer \o c \o <<"\n">>

\* lines 130-151
OnCharacters ==
    /\ Walking
    /\ Event.kind = "Characters"
    /\ page_xml' = page_xml + 1
    /\ consumed' = Append(consumed, <<current_page, page_xml + 1>>)
    /\ IF ~skip_text /\ ~InExcluded(element_stack)
       THEN /\ final_string' = AppendText(final_string, Event.text)
            /\ collected' = Append(collected, <<current_page, page_xml + 1>>)
       ELSE UNCHANGED <<final_string, collected>>
    /\ UNCHANGED <<history, tts, txt, toc, markup, pc, from_id, to_id, from_uri, from_tag, to_tag, to_uri,
                   content_to_read, idx, skip_text, scanned_pages, current_page,
                   content_uri, element_stack, result, fetched, resolved>>

StartMatchesAnyPage(attributes) ==
    \E e \in attributes : e.name = "id" /\ Some(e.value) = from_tag

\* lines 157-161: an id attribute names the start fragment on the start page
StartMatches(attributes) ==
    \E e \in attributes :
        /\ e.name = "id"
        /\ Some(e.value) = from_tag
        /\ PathBufEq(content_uri, from_uri)

StopMatchesFullId(attributes) ==
    \E e \in attributes :
        /\ e.name = "id"
        /\ Some(e.value) = to_tag
        /\ to_id.some
        /\ PathBufEq(content_uri, PathBufFrom(to_id.value))

\* lines 164-168: an id attribute names the stop fragment on the stop page
StopMatches(attributes) ==
    \E e \in attributes :
        /\ e.name = "id"
        /\ Some(e.value) = to_tag
        /\ to_uri.some
        /\ PathBufEq(content_uri, to_uri.value)

\* lines 152-175
OnStartElement ==
    /\ Walking
    /\ Event.kind = "StartElement"
    /\ page_xml' = page_xml + 1
    /\ consumed' = Append(consumed, <<current_page, page_xml + 1>>)
    /\ skip_text' = IF StartMatches(Event.attributes) THEN FALSE ELSE skip_text
    /\ IF StopMatches(Event.attributes)
       THEN /\ pc' = "done"
            /\ result' = Ok(final_string)
            /\ UNCHANGED element_stack
       ELSE /\ element_stack' =
                   Append(element_stack, EpubElement(Event.name, Event.attributes))
            /\ UNCHANGED <<pc, result>>
    /\ UNCHANGED <<history, tts, txt, toc, markup, from_id, to_id, from_uri, from_tag, to_tag, to_uri,
                   content_to_read, idx, final_string, scanned_pages, current_page,
                   content_uri, fetched, collected, resolved>>

RECURSIVE FirstNamed(_, _, _, _)
\* the loop of lines 177-182: the first i in lo..hi-1 (0-based lo, exclusive
\* hi) whose element has the name, or -1 written as Len(stack)
FirstNamed(stack, n, i, hi) ==
    IF i >= hi THEN Len(stack)
    ELSE IF stack[i + 1].name = n THEN i
    ELSE FirstNamed(stack, n, i + 1, hi)

\* Vec::remove(i), 0-based
RemoveAt(stack, i) ==
    SubSeq(stack, 1, i) \o SubSeq(stack, i + 2, Len(stack))

RemoveOnEndWholeRange(stack, n) ==
    LET i == FirstNamed(stack, n, 0, Len(stack))
    IN  IF i < Len(stack) THEN RemoveAt(stack, i) ELSE stack

\* lines 177-182: the range is 0..len-1, its last index is len-2
RemoveOnEnd(stack, n) ==
    LET i == FirstNamed(stack, n, 0, Len(stack) - 1)
    IN  IF i < Len(stack) THEN RemoveAt(stack, i) ELSE stack

\* lines 176-183; on an empty stack len() - 1 underflows and the call panics
\* (the subtraction in a debug build, the unwrap of get(0) in a release build)
OnEndElement ==
    /\ Walking
    /\ Event.kind = "EndElement"
    /\ page_xml' = page_xml + 1
    /\ consumed' = Append(consumed, <<current_page, page_xml + 1>>)
    /\ IF Len(element_stack) = 0
       THEN /\ pc' = "done"
            /\ result' = Panicked
            /\ UNCHANGED element_stack
       ELSE /\ element_stack' = RemoveOnEnd(element_stack, Event.name)
            /\ UNCHANGED <<pc, result>>
    /\ UNCHANGED <<history, tts, txt, toc, markup, from_id, to_id, from_uri, from_tag, to_tag, to_uri,
                   content_to_read, idx, final_string, skip_text, scanned_pages,
                   current_page, content_uri, fetched, collected, resolved>>

\* line 184
OnOtherEvent ==
    /\ Walking
    /\ Event.kind = "Other"
    /\ page_xml' = page_xml + 1
    /\ consumed' = Append(consumed, <<current_page, page_xml + 1>>)
    /\ UNCHANGED <<history, tts, txt, toc, markup, pc, from_id, to_id, from_uri, from_tag, to_tag, to_uri,
                   content_to_read, idx, final_string, skip_text, scanned_pages,
                   current_page, content_uri, element_stack, result, fetched,
                   collected, resolved>>

OnErrPartial(buffer) == Ok(buffer)

\* what line 185 returns
OnErrResult(buffer) == Err("parse failure")

\* line 185
OnError ==
    /\ Walking
    /\ Event.kind = "Error"
    /\ page_xml' = page_xml + 1
    /\ consumed' = Append(consumed, <<current_page, page_xml + 1>>)
    /\ pc' = "done"
    /\ result' = OnErrResult(final_string)
    /\ UNCHANGED <<history, tts, txt, toc, markup, from_id, to_id, from_uri, from_tag, to_tag, to_uri,
                   content_to_read, idx, final_string, skip_text, scanned_pages,
                   current_page, content_uri, element_stack, fetched,
                   collected, resolved>>

ReaderNeverExhausted(n, events) == FALSE

\* line 128: the iterator of the reader has no event left after the n-th
ReaderExhausted(n, events) == n = Len(events)

\* lines 128 and 187: the reader is exhausted, the outer loop goes on
PageEnd ==
    /\ pc = "walk"
    /\ ReaderExhausted(page_xml, markup[current_page].events)
    /\ pc' = "next"
    /\ UNCHANGED <<history, tts, txt, toc, markup, from_id, to_id, from_uri, from_tag, to_tag, to_uri,
                   content_to_read, idx, final_string, skip_text, scanned_pages,
                   current_page, content_uri, page_xml, element_stack, result,
                   fetched, consumed, collected, resolved>>

Next ==
    \/ \E f \in FromIds, t \in {None} \cup {Some(i) : i \in ToIds} : Call(f, t)
    \/ Finish
    \/ NoChapterFound
    \/ SkipScanned
    \/ OpenPage
    \/ NoContentFound
    \/ OnCharacters
    \/ OnStartElement
    \/ OnEndElement
    \/ OnOtherEvent
    \/ OnError
    \/ PageEnd

Spec == Init /\ [][Next]_vars

\* the steps of a call under way: the loops of lines 102 and 128
ExtractStep ==
    \/ Finish
    \/ NoChapterFound
    \/ SkipScanned
    \/ OpenPage
    \/ NoContentFound
    \/ OnCharacters
    \/ OnStartElement
    \/ OnEndElement
    \/ OnOtherEvent
    \/ OnError
    \/ PageEnd

----------------------------------------------------------------------------
TypeOK ==
    /\ pc \in {"idle", "next", "walk", "done"}
    /\ result.kind \in {"None", "Ok", "Err", "Panic"}
    /\ idx \in 0..Len(content_to_read)
    /\ scanned_pages \subseteq Pages

----------------------------------------------------------------------------
(* Vocabulary of the properties, computed from the ids and the markup alone *)

Min(S) == CHOOSE m \in S : \A n \in S : m <= n

Last(s) == s[Len(s)]

\* the document path of an id: the text before its first '#'
DocPathOf(i) ==
    LET hashes == {k \in 1..Len(i) : i[k] = "#"}
    IN  IF hashes = {} THEN i ELSE SubSeq(i, 1, Min(hashes) - 1)

HasFragment(i) == \E k \in 1..Len(i) : i[k] = "#"

\* the fragment of an id that has one: the text after its first '#'
FragmentOf(i) ==
    SubSeq(i, Min({k \in 1..Len(i) : i[k] = "#"}) + 1, Len(i))

EventAt(pp) == markup[pp[1]].events[pp[2]]

RECURSIVE OpenElements(_, _)
\* names of the elements started and not yet ended after the first k events
OpenElements(events, k) ==
    IF k = 0 THEN <<>>
    ELSE LET prev == OpenElements(events, k - 1)
         IN  IF events[k].kind = "StartElement" THEN Append(prev, events[k].name)
             ELSE IF events[k].kind = "EndElement" /\ prev # <<>>
                  THEN SubSeq(prev, 1, Len(prev) - 1)
                  ELSE prev

MediaTags ==
    {"img", "media", "script", "video", "audio", "object", "embed", "iframe",
     "source", "track", "svg"}

\* event number pos of the page lies inside an open excluded element
InsideExcluded(pp) ==
    LET open == OpenElements(markup[pp[1]].events, pp[2] - 1)
    IN  \E i \in 1..Len(open) : open[i] \in MediaTags

\* an excluded element was started and ended before event number pos
ExcludedClosedBefore(pp) ==
    \E k1, k2 \in 1..(pp[2] - 1) :
        /\ k1 < k2
        /\ markup[pp[1]].events[k1].kind = "StartElement"
        /\ markup[pp[1]].events[k1].name \in MediaTags
        /\ markup[pp[1]].events[k2].kind = "EndElement"
        /\ markup[pp[1]].events[k2].name = markup[pp[1]].events[k1].name

HasId(event, v) ==
    /\ event.kind = "StartElement"
    /\ \E a \in event.attributes : a.name = "id" /\ a.value = v

InSeq(x, s) == \E i \in 1..Len(s) : s[i] = x

NoDuplicates(s) == \A i, j \in 1..Len(s) : s[i] = s[j] => i = j

\* the page a document path names in the archive
PageOfPath(path) == ResourceUriToChapter(PathBufFrom(path))

----------------------------------------------------------------------------
(* C1 *)

\* C1: during one call every page has its markup fetched at most once and
\* every event of a page is handled at most once, however many filtered
\* entries resolve to the page; an aliasing entry adds no fetch and no event.
C1_PageScannedAtMostOnce ==
    /\ NoDuplicates(fetched)
    /\ NoDuplicates(consumed)
    /\ \A i \in 1..Len(consumed) : InSeq(consumed[i][1], fetched)

\* a call that returned text after an entry aliasing a visited page was skipped
C1_Witness ==
    /\ pc = "done"
    /\ result.kind = "Ok"
    /\ Len(fetched) >= 1
    /\ resolved > Len(fetched)
    /\ consumed # <<>>

----------------------------------------------------------------------------
(* C2 *)

\* C2: no character data lying inside an open element with an excluded tag
\* name is ever appended to the output.
C2_ExcludedTextNeverCollected ==
    \A i \in 1..Len(collected) : ~InsideExcluded(collected[i])

\* collecting from the first event on, the text of an excluded element nested
\* below a non-excluded one was just handled and left out
C2_Witness ==
    /\ ~HasFragment(from_id)
    /\ consumed # <<>>
    /\ EventAt(Last(consumed)).kind = "Characters"
    /\ InsideExcluded(Last(consumed))
    /\ ~InSeq(Last(consumed), collected)
    /\ collected # <<>>

----------------------------------------------------------------------------
(* C3 *)

\* C3: while collecting, character data that follows an excluded element
\* already closed by its end tag, with no excluded element open, is appended
\* to the output.
C3_TextAfterClosedExcludedCollected ==
    [][(/\ Walking
        /\ Event.kind = "Characters"
        /\ ~skip_text
        /\ ExcludedClosedBefore(<<current_page, page_xml + 1>>)
        /\ ~InsideExcluded(<<current_page, page_xml + 1>>))
       => final_string' = final_string \o Event.text \o <<"\n">>]_vars

\* a call where text following a closed script element was left out
C3_FailureReached ==
    /\ pc = "done"
    /\ result.kind = "Ok"
    /\ \E i \in 1..Len(consumed) :
          /\ EventAt(consumed[i]).kind = "Characters"
          /\ ExcludedClosedBefore(consumed[i])
          /\ ~InsideExcluded(consumed[i])
          /\ ~InSeq(consumed[i], collected)

----------------------------------------------------------------------------
(* C4 *)

\* a start tag carrying the start fragment as its id precedes event pp in its page
StartTagBefore(pp) ==
    \E k \in 1..(pp[2] - 1) : HasId(markup[pp[1]].events[k], FragmentOf(from_id))

\* C4: when fromId has a fragment, no character data of the start page that
\* precedes the first start tag whose id is that fragment is ever appended.
C4_NoTextBeforeStartFragment ==
    HasFragment(from_id) =>
        \A i \in 1..Len(collected) :
            PageOfPath(DocPathOf(from_id)) = Some(collected[i][1])
                => StartTagBefore(collected[i])

\* text before the start tag was handled and left out, text after it appended
C4_Witness ==
    /\ HasFragment(from_id)
    /\ collected # <<>>
    /\ \E i \in 1..Len(consumed) :
          /\ EventAt(consumed[i]).kind = "Characters"
          /\ PageOfPath(DocPathOf(from_id)) = Some(consumed[i][1])
          /\ ~StartTagBefore(consumed[i])
          /\ ~InSeq(consumed[i], collected)

----------------------------------------------------------------------------
(* C5 *)

\* the next event is a start tag whose id is the stop fragment, on the stop page
StopTagNext ==
    /\ Walking
    /\ to_id.some
    /\ HasFragment(to_id.value)
    /\ HasId(Event, FragmentOf(to_id.value))
    /\ PageOfPath(DocPathOf(to_id.value)) = Some(current_page)

\* C5: meeting the stop tag on the stop page returns at once exactly the text
\* accumulated before it; nothing is handled, resolved or fetched afterwards.
C5_StopTagReturnsAtOnce ==
    [][/\ StopTagNext =>
            /\ pc' = "done"
            /\ result' = [kind |-> "Ok", text |-> final_string, error |-> ""]
            /\ Len(consumed') = Len(consumed) + 1
            /\ UNCHANGED <<fetched, resolved, collected>>
       /\ pc = "done" => UNCHANGED <<result, consumed, fetched, resolved, collected>>]_vars

\* the call stopped at a stop tag in the middle of a page, with text collected
\* and with entries and events left over
C5_Witness ==
    /\ pc = "done"
    /\ result.kind = "Ok"
    /\ result.text # <<>>
    /\ to_id.some
    /\ HasFragment(to_id.value)
    /\ consumed # <<>>
    /\ HasId(EventAt(Last(consumed)), FragmentOf(to_id.value))
    /\ PageOfPath(DocPathOf(to_id.value)) = Some(Last(consumed)[1])
    /\ page_xml < Len(markup[current_page].events)
    /\ idx < Len(content_to_read)

----------------------------------------------------------------------------
(* C6, C7 *)

\* the table of contents in play order (unique orders)
InPlayOrder(t) == \A i, j \in 1..Len(t) : i < j => t[i].order < t[j].order

UniqueIds(t) == \A i, j \in 1..Len(t) : t[i].id = t[j].id => i = j

\* positions of the entries whose document path is that of fromId
StartMatchesAt == {i \in 1..Len(toc) : DocPathOf(toc[i].id) = DocPathOf(from_id)}

\* positions after the start of the range whose full id is toId
StopMatchesAfter(start) == {j \in (start + 1)..Len(toc) : toc[j].id = to_id.value}

Filtered == pc # "idle" /\ ~(pc = "done" /\ result.kind = "Err" /\ resolved = 0)

\* C6: with a stop id the filtered range ends immediately before the first
\* later entry whose full id equals toId, with or without a fragment in toId.
C6_RangeEndsBeforeStopEntry ==
    (/\ Filtered
     /\ to_id.some
     /\ InPlayOrder(toc) /\ UniqueIds(toc)
     /\ StartMatchesAt # {}
     /\ StopMatchesAfter(Min(StartMatchesAt)) # {})
    => content_to_read =
           SubSeq(toc, Min(StartMatchesAt), Min(StopMatchesAfter(Min(StartMatchesAt))) - 1)

\* C7: without a stop id the filtered range is the suffix of the table of
\* contents that begins at the first entry whose document path equals that of
\* fromId, whatever the fragments; it is empty when no entry has that path.
C7_NoStopGivesSuffixFromFirstPathMatch ==
    (Filtered /\ ~to_id.some /\ InPlayOrder(toc)) =>
        content_to_read =
            IF StartMatchesAt = {} THEN <<>>
            ELSE SubSeq(toc, Min(StartMatchesAt), Len(toc))

\* entries were dropped before the match, the range runs to the last entry and
\* starts at an entry whose fragment differs from that of fromId
C7_Witness ==
    /\ Filtered
    /\ ~to_id.some
    /\ content_to_read # <<>>
    /\ Len(content_to_read) >= 2
    /\ Len(content_to_read) < Len(toc)
    /\ content_to_read[1].id # from_id
    /\ Last(content_to_read) = Last(toc)

----------------------------------------------------------------------------
(* C8 *)

\* C8: when no entry has the document path of fromId the call returns empty
\* text, with no page resolved or fetched and no error.
C8_UnknownStartGivesEmptyText ==
    (pc = "done" /\ StartMatchesAt = {}) =>
        /\ result = [kind |-> "Ok", text |-> <<>>, error |-> ""]
        /\ resolved = 0
        /\ fetched = <<>>

\* a call from a path of the archive that the table of contents does not list
C8_Witness ==
    /\ pc = "done"
    /\ StartMatchesAt = {}
    /\ DocPathOf(from_id) # <<>>
    /\ PageOfPath(DocPathOf(from_id)).some
    /\ \E i \in 1..Len(toc) : PageOfPath(DocPathOf(toc[i].id)).some
    /\ result.kind = "Ok"

----------------------------------------------------------------------------
(* C9 *)

\* the call ended on a path without page, a page without markup or an invalid
\* event
FailureHappened ==
    \/ /\ idx >= 1
       /\ ~PageOfPath(DocPathOf(content_to_read[idx].id)).some
    \/ /\ fetched # <<>>
       /\ markup[Last(fetched)].avail = "none"
    \/ /\ consumed # <<>>
       /\ EventAt(Last(consumed)).kind = "Error"

\* C9: every failure inside the call yields an error carrying none of the
\* buffered text, and only a failure does.
C9_ErrorDiscardsBuffer ==
    pc = "done" =>
        /\ FailureHappened => (result.kind = "Err" /\ result.text = <<>>)
        /\ result.kind = "Err" => FailureHappened
        /\ result.kind = "Ok" => result.text = final_string

\* a failure on a later page, after text of an earlier page was buffered
C9_Witness ==
    /\ pc = "done"
    /\ result.kind = "Err"
    /\ final_string # <<>>
    /\ Len(fetched) >= 2
    /\ FailureHappened

----------------------------------------------------------------------------
(* C10 *)

MalformedId(i) == i = <<>> \/ DocPathOf(i) = <<>>

\* C10: a call whose fromId or toId is empty, or has an empty path portion,
\* returns an error.
C10_MalformedIdentifierFails ==
    (pc = "done" /\ (MalformedId(from_id) \/ (to_id.some /\ MalformedId(to_id.value))))
        => result.kind = "Err"


-----------------------------------------------------------------------------
\* Text-to-speech providers: the builders of provider/google.rs and
\* provider/openai.rs and the chain of provider/mod.rs.

\* the longest sequence of builder calls followed
MaxCalls == 4

\* the variants of TtsProvider
TtsProvider == {"Google", "OpenAi"}

\* the variants of SpeechSpeed
SpeechSpeed ==
    {"VeryVerySlow", "VerySlow", "Slow", "Normal", "Quick", "VeryQuick",
     "VeryVeryQuick"}

Voices == {"alloy", "nova"}

LanguageNames == {"English", "Italian"}

\* the values OPENAI_API_KEY can have in the environment
EnvKeys == {None, Some("sk")}

\* the match of OpenAiTtsClientBuilder::set_speed
SpeedFactor(speed) ==
    CASE speed = "VeryVerySlow" -> "0.25"
      [] speed = "VerySlow" -> "0.50"
      [] speed = "Slow" -> "0.75"
      [] speed = "Normal" -> "1.0"
      [] speed = "Quick" -> "1.25"
      [] speed = "VeryQuick" -> "1.5"
      [] speed = "VeryVeryQuick" -> "2.0"

UnwrapOr(opt, v) == IF opt.some THEN opt.value ELSE v

\* the calls create_tts_client makes on the builder, in order
CreateTtsClient ==
    <<[fn |-> "authorize", arg |-> ""],
      [fn |-> "with_voice", arg |-> "alloy"],
      [fn |-> "set_speed", arg |-> "Normal"],
      [fn |-> "build", arg |-> ""]>>

\* how a builder method ends: with a value, or in a panic
Returns(v) == [panic |-> FALSE, value |-> v]

Panics(msg) == [panic |-> TRUE, value |-> msg]

\* impl TtsClientBuilder for GTTSClientBuilder
GTTSDefault == [volume |-> "1.0", language |-> "English"]

GTTSAuthorize(b) == Panics(<<"explicit panic">>)

GTTSWithVoice(b, voice) == Panics(<<"explicit panic">>)

GTTSSetSpeed(b, speed) == Panics(<<"explicit panic">>)

GTTSForLanguage(b, language) == Returns([b EXCEPT !.language = language])

GTTSBuild(b) ==
    Returns([dispatcher |-> "Google",
             client |-> [volume |-> b.volume, language |-> b.language,
                         tld |-> "com"]])

\* impl TtsClientBuilder for OpenAiTtsClientBuilder
OpenAiDefault == [api_key |-> None, voice |-> None, speed |-> None]

OpenAiAuthorize(b, env_key) == Returns([b EXCEPT !.api_key = env_key])

OpenAiWithVoice(b, voice) == Returns([b EXCEPT !.voice = Some(voice)])

OpenAiSetSpeed(b, speed) ==
    Returns([b EXCEPT !.speed = Some(SpeedFactor(speed))])

OpenAiForLanguage(b, language) == Panics(<<"explicit panic">>)

OpenAiBuild(b) ==
    IF ~b.api_key.some
    THEN Panics(<<"API key is required">>)
    ELSE IF ~b.voice.some
         THEN Panics(<<"Voice is required">>)
         ELSE Returns([dispatcher |-> "OpenAi",
                       client |-> [api_key |-> b.api_key.value,
                                   voice |-> b.voice.value,
                                   speed |-> UnwrapOr(b.speed, "1.0")]])

TtsRunning == tts.status = "building" /\ Len(tts.calls) < MaxCalls

ExtractUnchanged ==
    UNCHANGED <<history, toc, markup, pc, from_id, to_id, from_uri, from_tag, to_tag,
                to_uri, content_to_read, idx, final_string, skip_text,
                scanned_pages, current_page, content_uri, page_xml,
                element_stack, result, fetched, consumed, collected,
                resolved>>

\* one method called on the builder: it hands the builder on, or panics
BuilderCall(call, outcome) ==
    /\ TtsRunning
    /\ tts' = IF outcome.panic
              THEN [tts EXCEPT !.calls = Append(@, call), !.status = "panic",
                               !.client = outcome.value]
              ELSE [tts EXCEPT !.calls = Append(@, call),
                               !.builder = outcome.value]
    /\ ExtractUnchanged /\ UNCHANGED txt

\* TtsProvider::default up to the call of create_tts_client
ProviderDefault(p) ==
    /\ tts.status = "unused"
    /\ tts' = [tts EXCEPT !.provider = p,
                          !.builder = IF p = "Google" THEN GTTSDefault
                                      ELSE OpenAiDefault,
                          !.status = "building"]
    /\ ExtractUnchanged /\ UNCHANGED txt

Authorize ==
    BuilderCall([fn |-> "authorize", arg |-> ""],
                IF tts.provider = "Google" THEN GTTSAuthorize(tts.builder)
                ELSE OpenAiAuthorize(tts.builder, tts.env_key))

WithVoice(voice) ==
    BuilderCall([fn |-> "with_voice", arg |-> voice],
                IF tts.provider = "Google"
                THEN GTTSWithVoice(tts.builder, voice)
                ELSE OpenAiWithVoice(tts.builder, voice))

SetSpeed(speed) ==
    BuilderCall([fn |-> "set_speed", arg |-> speed],
                IF tts.provider = "Google"
                THEN GTTSSetSpeed(tts.builder, speed)
                ELSE OpenAiSetSpeed(tts.builder, speed))

ForLanguage(language) ==
    BuilderCall([fn |-> "for_language", arg |-> language],
                IF tts.provider = "Google"
                THEN GTTSForLanguage(tts.builder, language)
                ELSE OpenAiForLanguage(tts.builder, language))

Build ==
    /\ TtsRunning
    /\ LET outcome == IF tts.provider = "Google" THEN GTTSBuild(tts.builder)
                      ELSE OpenAiBuild(tts.builder)
       IN tts' = [tts EXCEPT !.calls = Append(@, [fn |-> "build", arg |-> ""]),
                             !.status = IF outcome.panic THEN "panic"
                                        ELSE "built",
                             !.client = outcome.value]
    /\ ExtractUnchanged /\ UNCHANGED txt

InitTts ==
    /\ toc = <<>>
    /\ ExtractIdle
    /\ tts \in {[NoTts EXCEPT !.env_key = k] : k \in EnvKeys}
    /\ txt = NoTxt

NextTts ==
    \/ \E p \in TtsProvider : ProviderDefault(p)
    \/ Authorize
    \/ \E v \in Voices : WithVoice(v)
    \/ \E s \in SpeechSpeed : SetSpeed(s)
    \/ \E l \in LanguageNames : ForLanguage(l)
    \/ Build

SpecTts == InitTts /\ [][NextTts]_vars

IsPrefix(s, t) == Len(s) <= Len(t) /\ s = SubSeq(t, 1, Len(s))

\* the provider's key is there when the provider needs one
ProviderUsable ==
    \/ tts.provider = "Google"
    \/ tts.provider = "OpenAi" /\ tts.env_key # None

\* C11: for each provider variant (Google, and OpenAi when OPENAI_API_KEY is
\* present) the chain of TtsProvider::default (authorize, with_voice,
\* set_speed, build) never fails, and once it is complete the dispatcher
\* holds that provider's client.
C11_DefaultChainBuildsClient ==
    (tts.status # "unused" /\ ProviderUsable
       /\ IsPrefix(tts.calls, CreateTtsClient))
    => /\ tts.status # "panic"
       /\ tts.calls = CreateTtsClient
          => tts.status = "built" /\ tts.client.dispatcher = tts.provider

\* the OpenAi half of C11 happens: the whole chain run with a key present
C11_OpenAiChainBuilt ==
    /\ tts.provider = "OpenAi"
    /\ tts.calls = CreateTtsClient
    /\ tts.status = "built"
    /\ tts.client.dispatcher = "OpenAi"


-----------------------------------------------------------------------------
\* TxtParser::parse_bytes: plain text cut into paragraphs.

\* the longest input given to the plain-text parser
MaxLen == 6

\* the bytes of an input: a letter, a space, a line feed, and a byte that is
\* not valid UTF-8
Bytes == {"a", " ", "\n", "xFF"}

RECURSIVE SeqsUpTo(_, _)
SeqsUpTo(S, n) ==
    IF n = 0 THEN {<<>>}
    ELSE LET shorter == SeqsUpTo(S, n - 1)
         IN shorter \cup {Append(q, c) : q \in {r \in shorter : Len(r) = n - 1},
                                           c \in S}

\* String::from_utf8_lossy: an invalid byte becomes U+FFFD
FromUtf8Lossy(input) ==
    [i \in 1..Len(input) |-> IF input[i] = "xFF" THEN "U+FFFD" ELSE input[i]]

\* char::is_whitespace, as str::trim uses it
IsWhitespace(c) == c \in {" ", "\n"}

\* str::split("\n\n"): the pieces between the matches found left to right
RECURSIVE SplitBlank(_)
SplitBlank(s) ==
    LET at == {i \in 1..(Len(s) - 1) : s[i] = "\n" /\ s[i + 1] = "\n"}
    IN IF at = {} THEN <<s>>
       ELSE LET i == CHOOSE m \in at : \A n \in at : m <= n
            IN <<SubSeq(s, 1, i - 1)>> \o SplitBlank(SubSeq(s, i + 2, Len(s)))

TrimNothing(s) == s

\* str::trim
Trim(s) ==
    LET inked == {i \in 1..Len(s) : ~IsWhitespace(s[i])}
    IN IF inked = {} THEN <<>>
       ELSE SubSeq(s, CHOOSE m \in inked : \A n \in inked : m <= n,
                      CHOOSE m \in inked : \A n \in inked : m >= n)

\* the filter_map of parse_bytes: trim each piece, drop the empty ones
RECURSIVE FilterMapTrim(_)
FilterMapTrim(pieces) ==
    IF pieces = <<>> THEN <<>>
    ELSE LET trimed == Trim(Head(pieces))
         IN (IF trimed = <<>> THEN <<>> ELSE <<trimed>>)
            \o FilterMapTrim(Tail(pieces))

ParseBytes ==
    /\ ~txt.parsed
    /\ txt' = [txt EXCEPT !.parsed = TRUE,
                 !.paragraphs = FilterMapTrim(SplitBlank(FromUtf8Lossy(txt.input)))]
    /\ ExtractUnchanged /\ UNCHANGED tts

InitTxt ==
    /\ toc = <<>>
    /\ ExtractIdle
    /\ tts = NoTts
    /\ txt \in {[NoTxt EXCEPT !.input = b] : b \in SeqsUpTo(Bytes, MaxLen)}

NextTxt == ParseBytes

SpecTxt == InitTxt /\ [][NextTxt]_vars

\* the input as text, and its characters that are not white space
TxtChars ==
    [i \in 1..Len(txt.input) |->
        IF txt.input[i] \in {" ", "\n"} THEN txt.input[i] ELSE "ink"]

\* no empty line lies between positions i and j of the input
SameParagraph(i, j) ==
    \A k \in i..(j - 1) : ~(TxtChars[k] = "\n" /\ TxtChars[k + 1] = "\n")

Inked == {i \in 1..Len(txt.input) : TxtChars[i] = "ink"}

\* where a paragraph starts, and where the paragraph starting at i ends
ParagraphStarts ==
    {i \in Inked : \A j \in Inked : j < i => ~SameParagraph(j, i)}

ParagraphEnd(i) ==
    CHOOSE j \in Inked :
        /\ j >= i /\ SameParagraph(i, j)
        /\ \A k \in Inked : (k > j) => ~SameParagraph(i, k)

\* the text of the input from position i to position j
TxtSlice(i, j) ==
    [k \in 1..(j - i + 1) |->
        IF txt.input[i + k - 1] = "xFF" THEN "U+FFFD" ELSE txt.input[i + k - 1]]

\* C12: parse_bytes returns, in input order, one trimmed paragraph for each
\* maximal stretch of the input that holds no empty line and is not all white
\* space; no returned paragraph is empty, and a run of blank lines of any
\* length adds no paragraph.
C12_OneTrimmedParagraphPerSegment ==
    txt.parsed =>
        /\ Len(txt.paragraphs) = Cardinality(ParagraphStarts)
        /\ \A n \in 1..Len(txt.paragraphs) :
              /\ txt.paragraphs[n] # <<>>
              /\ \E i \in ParagraphStarts :
                    /\ Cardinality({j \in ParagraphStarts : j < i}) = n - 1
                    /\ txt.paragraphs[n] = TxtSlice(i, ParagraphEnd(i))

\* parse_bytes has run on a text that starts with white space and has two
\* paragraphs with three line feeds between them
C12_Witness ==
    /\ txt.parsed
    /\ Len(txt.paragraphs) = 2
    /\ \E i \in 2..(Len(txt.input) - 4) :
          /\ \A k \in 1..(i - 1) : TxtChars[k] # "ink"
          /\ TxtChars[i] = "ink"
          /\ \A k \in (i + 1)..(i + 3) : TxtChars[k] = "\n"
          /\ TxtChars[i + 4] = "ink"

----------------------------------------------------------------------------
(* C13 *)

\* positions of the stack entries with the tag name n, oldest first
NamedEntries(stack, n) == {i \in 1..Len(stack) : stack[i].name = n}

\* the stack without its entry number i
WithoutEntry(stack, i) ==
    [k \in 1..(Len(stack) - 1) |-> IF k < i THEN stack[k] ELSE stack[k + 1]]

\* C13: an end tag removes exactly one stack entry of its name, the oldest
\* one, also when the only such entry is the one pushed last; with no entry
\* of its name the stack stays as it is.
C13_EndTagRemovesOldestMatch ==
    [][(Walking /\ Event.kind = "EndElement")
       => element_stack' =
            IF NamedEntries(element_stack, Event.name) = {}
            THEN element_stack
            ELSE WithoutEntry(element_stack,
                              Min(NamedEntries(element_stack, Event.name)))]_vars

\* an end tag was handled whose only match was the element pushed last, and
\* the element is still on the stack
C13_FailureReached ==
    /\ pc = "walk"
    /\ consumed # <<>>
    /\ EventAt(Last(consumed)).kind = "EndElement"
    /\ element_stack # <<>>
    /\ Last(element_stack).name = EventAt(Last(consumed)).name
    /\ Len(OpenElements(markup[current_page].events, page_xml))
         < Len(element_stack)

----------------------------------------------------------------------------
(* C14 *)

\* before the first token of the call is handled, collecting is off exactly
\* when fromId has a fragment
InitialCollecting ==
    (pc \in {"next", "walk"} /\ consumed = <<>>)
        => (skip_text <=> HasFragment(from_id))

\* with a fragment-less fromId, every text node of the start page handled so
\* far that lies in no open excluded element was appended
StartPageTextCollected ==
    ~HasFragment(from_id) =>
        \A i \in 1..Len(consumed) :
            (/\ PageOfPath(DocPathOf(from_id)) = Some(consumed[i][1])
             /\ EventAt(consumed[i]).kind = "Characters"
             /\ ~InsideExcluded(consumed[i]))
            => InSeq(consumed[i], collected)

\* C14: at the start of a call collecting is false exactly when fromId has a
\* fragment; with a fragment-less fromId every text node of the start page
\* outside excluded elements, from the first token on, is collected.
C14_CollectingFromStartWithoutFragment ==
    InitialCollecting /\ StartPageTextCollected

\* a call with a fragment-less fromId that handled the whole start page and
\* left out a text node lying in no excluded element
C14_FailureReached ==
    /\ ~HasFragment(from_id)
    /\ pc = "done"
    /\ result.kind = "Ok"
    /\ \E i \in 1..Len(consumed) :
          /\ PageOfPath(DocPathOf(from_id)) = Some(consumed[i][1])
          /\ EventAt(consumed[i]).kind = "Characters"
          /\ ~InsideExcluded(consumed[i])
          /\ ExcludedClosedBefore(consumed[i])
          /\ ~InSeq(consumed[i], collected)

----------------------------------------------------------------------------
(* C15 *)

\* the next event is a start tag whose id is the start fragment, on the start
\* page
StartTagNext ==
    /\ Walking
    /\ HasFragment(from_id)
    /\ HasId(Event, FragmentOf(from_id))
    /\ PageOfPath(DocPathOf(from_id)) = Some(current_page)

\* C15: the start check takes precedence over the stop check: a start tag
\* that matches the start anchor sets collecting and does not end the call,
\* also when the same tag matches the stop anchor.
C15_StartTagNeverTerminates ==
    [][StartTagNext => (~skip_text' /\ pc' = "walk" /\ result' = result)]_vars

\* a call ended on the tag that matches the start anchor and the stop anchor
C15_FailureReached ==
    /\ pc = "done"
    /\ result.kind = "Ok"
    /\ ~skip_text
    /\ consumed # <<>>
    /\ HasFragment(from_id)
    /\ HasId(EventAt(Last(consumed)), FragmentOf(from_id))
    /\ PageOfPath(DocPathOf(from_id)) = Some(Last(consumed)[1])
    /\ to_id = Some(from_id)

----------------------------------------------------------------------------
(* C16 *)

\* the next event is a start tag whose id is the fragment of the anchor, on
\* the page the anchor's document path names
AnchorTagNext(anchor) ==
    /\ HasFragment(anchor)
    /\ HasId(Event, FragmentOf(anchor))
    /\ PageOfPath(DocPathOf(anchor)) = Some(current_page)

\* C16: a start tag switches collecting on only when its id is the start
\* fragment and the page is the start anchor's page, and it ends the call
\* only when its id is the stop fragment and the page is the stop anchor's
\* page; the same id on another page changes nothing, and an anchor without
\* a fragment is matched by no id.
C16_AnchorsMatchOnTheirPageOnly ==
    [][(Walking /\ Event.kind = "StartElement")
       => /\ (skip_text' # skip_text) => AnchorTagNext(from_id)
          /\ AnchorTagNext(from_id) => ~skip_text'
          /\ (pc' = "done") => (to_id.some /\ AnchorTagNext(to_id.value))
          /\ (to_id.some /\ AnchorTagNext(to_id.value)) => pc' = "done"]_vars

\* a tag with the stop fragment as id was passed on a page that is not the
\* stop page and a tag with the start fragment as id on a page that is not
\* the start page: the call goes on and collecting is still off
C16_Witness ==
    /\ pc = "walk"
    /\ skip_text
    /\ HasFragment(from_id)
    /\ to_id.some
    /\ HasFragment(to_id.value)
    /\ \E i, j \in 1..Len(consumed) :
          /\ HasId(EventAt(consumed[i]), FragmentOf(from_id))
          /\ PageOfPath(DocPathOf(from_id)) # Some(consumed[i][1])
          /\ HasId(EventAt(consumed[j]), FragmentOf(to_id.value))
          /\ PageOfPath(DocPathOf(to_id.value)) # Some(consumed[j][1])

----------------------------------------------------------------------------
(* C17 *)

RECURSIVE TextOf(_)
\* the texts of the events at the given places, each followed by a newline
TextOf(places) ==
    IF places = <<>> THEN <<>>
    ELSE TextOf(SubSeq(places, 1, Len(places) - 1))
         \o EventAt(Last(places)).text \o <<"\n">>

\* an element with an excluded tag name is on the stack
ExcludedOnStack ==
    \E i \in 1..Len(element_stack) : element_stack[i].name \in MediaTags

\* the places in scan order: pages in the order they were fetched, the events
\* of a page in token order
InScanOrder(places) ==
    \A i, j \in 1..Len(places) :
        i < j =>
            \/ places[i][1] = places[j][1] /\ places[i][2] < places[j][2]
            \/ \E m, n \in 1..Len(fetched) :
                  m < n /\ fetched[m] = places[i][1] /\ fetched[n] = places[j][1]

\* the text tokens met so far while collecting, with no excluded element on
\* the stack, are the ones appended, and the buffer is their texts in scan
\* order; a returned text is the buffer
BufferIsCollectedText ==
    /\ final_string = TextOf(collected)
    /\ InScanOrder(collected)
    /\ (pc = "done" /\ result.kind = "Ok") => result.text = final_string

\* a step appends the text of a token and a newline when the token is
\* character data met while collecting with no excluded element on the stack,
\* and leaves the buffer alone in every other case
BufferOnlyGrowsByText ==
    [][pc # "idle" =>
        final_string' =
            IF Walking /\ Event.kind = "Characters" /\ ~skip_text
               /\ ~ExcludedOnStack
            THEN final_string \o Event.text \o <<"\n">>
            ELSE final_string]_vars

\* C17: the returned text is exactly the concatenation, in token order within
\* a page and in page-scan order across pages, of every character-data token
\* met while collecting with no excluded element on the stack, each followed
\* by one newline; nothing else is added, nothing is removed or reordered.
C17_TextIsConcatenationOfCollectedTokens ==
    []BufferIsCollectedText /\ BufferOnlyGrowsByText

\* a call returned text collected from two pages while other text tokens
\* were left out
C17_Witness ==
    /\ pc = "done"
    /\ result.kind = "Ok"
    /\ \E i, j \in 1..Len(collected) : collected[i][1] # collected[j][1]
    /\ \E i \in 1..Len(consumed) :
          /\ EventAt(consumed[i]).kind = "Characters"
          /\ ~InSeq(consumed[i], collected)

----------------------------------------------------------------------------
(* C18 *)

\* the longest table of contents listed against the play order
MaxShuffled == 4

\* the entries of such a table, in the order the container lists them: two
\* entries of page b, one that names no page of the archive, one of page a
ShuffledIds == <<IdB, IdC, IdBy, IdA, IdAx>>

\* tables of contents whose play orders are any arrangement of 1..n
ShuffledTocs ==
    UNION { { [i \in 1..n |-> Content(ShuffledIds[i], o[i])] :
                o \in { g \in [1..n -> 1..n] : Injective(g) } } :
            n \in 1..Min({MaxShuffled, Len(ShuffledIds)}) }

InitShuffled ==
    /\ toc \in ShuffledTocs
    /\ ExtractIdle
    /\ tts = NoTts
    /\ txt = NoTxt

SpecShuffled == InitShuffled /\ [][Next]_vars

\* a call that has started keeps running: it is one thread that never waits
\* the entries of the tables of contents the termination check runs on: two
\* of page a, one of page b, one that names no page of the archive
LiveIds == {IdA, IdAx, IdBy, IdC}

\* the longest of these tables
MaxLive == 2

InitLive ==
    /\ toc \in {t \in Tocs : /\ Len(t) <= MaxLive
                             /\ \A i \in 1..Len(t) : t[i].id \in LiveIds}
    /\ ExtractIdle
    /\ tts = NoTts
    /\ txt = NoTxt

SpecLive == InitLive /\ [][Next]_vars /\ WF_vars(ExtractStep)

\* for each filtered entry, the page its document path names
PagesOfRange ==
    [k \in 1..Len(content_to_read) |->
        PageOfPath(DocPathOf(content_to_read[k].id))]

\* the smallest play order among the filtered entries that name the page
FirstOrderOf(page, pages) ==
    Min({content_to_read[k].order :
            k \in {i \in 1..Len(content_to_read) : pages[i] = Some(page)}})

\* the filtered range is a run of the table of contents in ascending play
\* order: no entry of the table lies between two of its entries
RangeInPlayOrder ==
    /\ InPlayOrder(content_to_read)
    /\ \A i \in 1..Len(content_to_read) : InSeq(content_to_read[i], toc)
    /\ \A k \in 1..Len(toc) :
          (/\ content_to_read # <<>>
           /\ content_to_read[1].order < toc[k].order
           /\ toc[k].order < Last(content_to_read).order)
          => InSeq(toc[k], content_to_read)

\* C18: pages are scanned in ascending play order of their first filtered
\* entry, whatever order the container lists the table of contents in: the
\* filter runs on the table sorted by order, and no page is scanned before a
\* page whose first entry has a smaller play order.
C18_PagesScannedInPlayOrder ==
    [][/\ (pc = "idle" /\ pc' = "next") => RangeInPlayOrder'
       /\ (fetched' # fetched) =>
             LET pages == PagesOfRange
             IN \A m, n \in 1..Len(fetched') :
                   m < n => FirstOrderOf(fetched'[m], pages)
                              < FirstOrderOf(fetched'[n], pages)]_vars

\* a call that scanned two pages of a table of contents the container listed
\* against the play order
C18_Witness ==
    /\ pc = "done"
    /\ result.kind = "Ok"
    /\ Len(fetched) = 2
    /\ \E i, j \in 1..Len(toc) :
          /\ i < j
          /\ toc[i].order > toc[j].order
          /\ PageOfPath(DocPathOf(toc[j].id)) = Some(fetched[1])
          /\ PageOfPath(DocPathOf(toc[i].id)) = Some(fetched[2])

----------------------------------------------------------------------------
(* C19 *)

\* the call has returned text or an error
Returned == pc = "done" /\ result.kind \in {"Ok", "Err"}

\* C19: every call terminates: it returns text or an error, and on the way
\* each filtered entry is taken at most once and the events of a page are
\* handled one after the other up to a stop tag, a parse error or the last one.
C19_EveryCallReturns ==
    /\ (pc # "idle") ~> Returned
    /\ [][pc # "idle" =>
            /\ idx' \in {idx, idx + 1}
            /\ (pc' = "walk" /\ idx' = idx) => page_xml' \in {page_xml, page_xml + 1}]_vars

\* a call without stop id that walked two pages to their last event and
\* returned at the end of the filtered range
C19_Witness ==
    /\ Returned
    /\ ~to_id.some
    /\ Len(fetched) = 2
    /\ idx = Len(content_to_read)
    /\ \A p \in 1..2 :
          Cardinality({i \in 1..Len(consumed) : consumed[i][1] = fetched[p]})
              = Len(markup[fetched[p]].events)

----------------------------------------------------------------------------
(* C20 *)

\* every end tag of the page comes after a start tag of the page
EndTagsFollowStartTags(events) ==
    \A k \in 1..Len(events) :
        events[k].kind = "EndElement"
            => \E j \in 1..(k - 1) : events[j].kind = "StartElement"

\* a start tag of the current page has been handled and pushed
StartTagPushed ==
    /\ pc = "walk"
    /\ \E k \in 1..page_xml : markup[current_page].events[k].kind = "StartElement"

\* C20: on pages where each end tag comes after a start tag, the stack is
\* non-empty whenever an end tag is handled, so len() - 1 never underflows and
\* the call never panics; once the first start tag of a page is pushed the
\* stack is never empty again in that page.
C20_StackNonEmptyAtEndTags ==
    (\A p \in Pages : EndTagsFollowStartTags(markup[p].events))
    => /\ result.kind # "Panic"
       /\ (Walking /\ Event.kind = "EndElement") => element_stack # <<>>
       /\ StartTagPushed => element_stack # <<>>

\* a page was walked to its last event: every element is closed, end tags were
\* handled with one element on the stack, and the stack is not empty
C20_Witness ==
    /\ pc = "walk"
    /\ page_xml = Len(markup[current_page].events)
    /\ EventAt(Last(consumed)).kind = "EndElement"
    /\ OpenElements(markup[current_page].events, page_xml) = <<>>
    /\ Len(element_stack) >= 1
    /\ result.kind = "None"

----------------------------------------------------------------------------
(* C21 *)

\* C21: within one call collecting is monotonic: once skip_text is false it
\* is never true again, at no token and at no page boundary.
C21_CollectingNeverSwitchedOff ==
    [][(pc # "idle" /\ ~skip_text) => ~skip_text']_vars

\* the start tag was met on the first page scanned, and text of the second
\* page scanned was collected
C21_Witness ==
    /\ HasFragment(from_id)
    /\ ~skip_text
    /\ Len(fetched) = 2
    /\ \E i \in 1..Len(consumed) :
          /\ consumed[i][1] = fetched[1]
          /\ HasId(EventAt(consumed[i]), FragmentOf(from_id))
    /\ \E i \in 1..Len(collected) : collected[i][1] = fetched[2]

----------------------------------------------------------------------------
(* C22 *)

\* the step opens a page for walking
PageOpened == fetched' # fetched /\ pc' = "walk"

\* an excluded element was started by an event of the current page already
\* handled
ExcludedStartedInPage ==
    \E k \in 1..page_xml :
        /\ markup[current_page].events[k].kind = "StartElement"
        /\ markup[current_page].events[k].name \in MediaTags

\* C22: the stack is empty at the first token of every scanned page, whatever
\* the page before left on it, so text is suppressed only by an excluded
\* element of its own page, while the collecting flag and the buffer are
\* carried over unchanged.
C22_StackFreshOnEveryPage ==
    [][/\ PageOpened =>
             /\ element_stack' = <<>>
             /\ page_xml' = 0
             /\ skip_text' = skip_text
             /\ final_string' = final_string
       /\ (Walking /\ Event.kind = "Characters" /\ ~skip_text
             /\ ~ExcludedStartedInPage)
          => final_string' = final_string \o Event.text \o <<"\n">>]_vars

\* the first page scanned left an excluded element on the stack and text of
\* it was collected; text of the second page scanned was collected too
C22_Witness ==
    /\ Len(fetched) = 2
    /\ \E k \in 1..Len(markup[fetched[1]].events) :
          /\ markup[fetched[1]].events[k].kind = "StartElement"
          /\ markup[fetched[1]].events[k].name \in MediaTags
          /\ InSeq(<<fetched[1], k>>, consumed)
    /\ \E i \in 1..Len(collected) : collected[i][1] = fetched[1]
    /\ \E i \in 1..Len(collected) : collected[i][1] = fetched[2]
    /\ InSeq(<<fetched[1], Len(markup[fetched[1]].events)>>, consumed)

-----------------------------------------------------------------------------
\* Calls one after the other on the same parser.

\* how many times the caller calls again after a call has returned
MaxAgain == 2

\* the tables of contents of the archives called repeatedly
RepeatTocs ==
    {<<Content(IdA, 1), Content(IdAx, 2), Content(IdBy, 3)>>,
     <<Content(IdA, 1), Content(IdC, 2)>>}

\* the arguments of the repeated calls
RepeatArgs ==
    {<<IdA, None>>, <<IdAx, Some(IdBy)>>, <<IdB, None>>}

\* a call has returned and the caller goes on to call again: the locals of
\* the call are gone, the parser keeps its reader and the reader its current
\* page
Again ==
    /\ pc = "done"
    /\ result.kind \in {"Ok", "Err"}
    /\ Len(history) < MaxAgain
    /\ history' = Append(history, [from_id |-> from_id, to_id |-> to_id,
                                   result |-> result, page |-> current_page])
    /\ pc' = "idle"
    /\ result' = NoResult
    /\ fetched' = <<>>
    /\ consumed' = <<>>
    /\ collected' = <<>>
    /\ resolved' = 0
    /\ UNCHANGED <<tts, txt, toc, markup, from_id, to_id, from_uri, from_tag,
                   to_tag, to_uri, content_to_read, idx, final_string,
                   skip_text, scanned_pages, current_page, content_uri,
                   page_xml, element_stack>>

InitRepeat ==
    /\ toc \in RepeatTocs
    /\ ExtractIdle
    /\ tts = NoTts
    /\ txt = NoTxt

NextRepeat ==
    \/ \E a \in RepeatArgs : Call(a[1], a[2])
    \/ ExtractStep
    \/ Again

SpecRepeat == InitRepeat /\ [][NextRepeat]_vars

----------------------------------------------------------------------------
(* C23 *)

\* C23: two calls with the same fromId and toId on the same archive return
\* the same result, whatever calls ran before and wherever they left the
\* reader's current page.
C23_SameArgumentsSameResult ==
    /\ \A i, j \in 1..Len(history) :
          (history[i].from_id = history[j].from_id
             /\ history[i].to_id = history[j].to_id)
          => history[i].result = history[j].result
    /\ \A i \in 1..Len(history) :
          (pc = "done" /\ history[i].from_id = from_id
             /\ history[i].to_id = to_id)
          => result = history[i].result

\* a call returned text, a call with other arguments then left the reader on
\* another page, and the first call made again returned the same text
C23_Witness ==
    /\ pc = "done"
    /\ Len(history) = 2
    /\ history[1].from_id = from_id
    /\ history[1].to_id = to_id
    /\ history[2].from_id # from_id
    /\ history[2].page # history[1].page
    /\ result.kind = "Ok"
    /\ result.text # <<>>
    /\ result = history[1].result

====
